---- MODULE Spec2Model ----
(***************************************************************************)
(* State-machine model of moto's CloudWatch backend                        *)
(* (src/moto/cloudwatch/models.py): the alarm registry, the dashboard      *)
(* registry, the metric store, its statistics and the list_metrics         *)
(* continuation tokens.                                                    *)
(*                                                                         *)
(* Python values are represented as follows:                               *)
(*   dict            a function whose DOMAIN is the set of keys            *)
(*   list / tuple    a sequence                                            *)
(*   None            the string None (NoToken / NoTimestamp where the      *)
(*                   other values of the slot are numbers)                 *)
(*   datetime        a natural number of seconds; utcnow() reads clock,    *)
(*                   and a call that reads it advances it by one           *)
(*   str(uuid4())    a positive number never issued before (uuid_count)    *)
(*   raise RESTError the error code in last.error, state left as the       *)
(*                   handler left it when it raised                        *)
(* The variable last records the most recent call: its name, arguments,    *)
(* error code (None when it returned) and return value.                    *)
(* set_state_calls is a history variable: for each registered alarm, the   *)
(* number of set_alarm_state calls that returned since it was last put.    *)
(*                                                                         *)
(* The VPN gateway backend (src/moto/ec2/models/vpn_gateway.py) is the     *)
(* registry vpn_gateways; random_vpn_gateway_id() is the text "vgw-" with  *)
(* a number never issued before (vgw_count).  An id is a pair of its       *)
(* prefix and the rest, so that startswith reads the prefix.               *)
(* keys_before is a history variable: the keys of the gateway's            *)
(* attachments when the most recent call, an attach_vpn_gateway that       *)
(* returned, was made; empty after any other call.                         *)
(***************************************************************************)
EXTENDS Integers, Sequences, FiniteSets, TLC

VARIABLES alarms, dashboards, metric_data, paged_metric_data,
          clock, uuid_count, chains, used, set_state_calls,
          vpn_gateways, vgw_count, keys_before, last

vars == <<alarms, dashboards, metric_data, paged_metric_data,
          clock, uuid_count, chains, used, set_state_calls,
          vpn_gateways, vgw_count, keys_before, last>>

\* the state of the VPN gateway backend
vpn_vars == <<vpn_gateways, vgw_count, keys_before>>

\* the state of the CloudWatch backend
cw_vars == <<alarms, dashboards, metric_data, paged_metric_data,
            clock, uuid_count, chains, used, set_state_calls>>

---------------------------------------------------------------------------
(* Bounds of the model *)

\* utcnow() is read at most MaxClock times
MaxClock == 4

\* uuid4() is called at most MaxTokens times
MaxTokens == 2

\* metric_data holds at most MaxPoints points
MaxPoints == 1400

\* the statistics are asked of at most MaxSamples points
MaxSamples == 4

\* the filter is asked of at most MaxFilterPoints points
MaxFilterPoints == 2

\* at most MaxGateways VPN gateways are created
MaxGateways == 2

---------------------------------------------------------------------------
(* Python helpers *)

None == "None"

NoToken == 0

NoTimestamp == -1

EmptyDict == [k \in {} |-> None]

Range(s) == {s[i] : i \in DOMAIN s}

\* d[k] = v
DictSet(d, k, v) == [x \in DOMAIN d \cup {k} |-> IF x = k THEN v ELSE d[x]]

\* d.pop(k, None) / del d[k]
DictPop(d, k) == [x \in DOMAIN d \ {k} |-> d[x]]

\* truth value of an optional string argument
Truthy(s) == s # None /\ s # ""

---------------------------------------------------------------------------
(* Dimension, FakeAlarm *)

Dimension(name, value) == [name |-> name, value |-> value]

FakeAlarm_insufficient(name, cfg, now) ==
    [name |-> name,
     namespace |-> cfg.namespace,
     metric_name |-> cfg.metric_name,
     comparison_operator |-> cfg.comparison_operator,
     evaluation_periods |-> cfg.evaluation_periods,
     period |-> cfg.period,
     threshold |-> cfg.threshold,
     statistic |-> cfg.statistic,
     description |-> cfg.description,
     dimensions |-> [i \in DOMAIN cfg.dimensions |->
                       Dimension(cfg.dimensions[i].name, cfg.dimensions[i].value)],
     actions_enabled |-> cfg.actions_enabled,
     alarm_actions |-> cfg.alarm_actions,
     ok_actions |-> cfg.ok_actions,
     insufficient_data_actions |-> cfg.insufficient_data_actions,
     unit |-> cfg.unit,
     configuration_updated_timestamp |-> now,
     history |-> << >>,
     state_reason |-> "",
     state_reason_data |-> "{}",
     state_value |-> "INSUFFICIENT_DATA",
     state_updated_timestamp |-> now]

FakeAlarm(name, cfg, now) ==
    [name |-> name,
     namespace |-> cfg.namespace,
     metric_name |-> cfg.metric_name,
     comparison_operator |-> cfg.comparison_operator,
     evaluation_periods |-> cfg.evaluation_periods,
     period |-> cfg.period,
     threshold |-> cfg.threshold,
     statistic |-> cfg.statistic,
     description |-> cfg.description,
     dimensions |-> [i \in DOMAIN cfg.dimensions |->
                       Dimension(cfg.dimensions[i].name, cfg.dimensions[i].value)],
     actions_enabled |-> cfg.actions_enabled,
     alarm_actions |-> cfg.alarm_actions,
     ok_actions |-> cfg.ok_actions,
     insufficient_data_actions |-> cfg.insufficient_data_actions,
     unit |-> cfg.unit,
     configuration_updated_timestamp |-> now,
     history |-> << >>,
     state_reason |-> "",
     state_reason_data |-> "{}",
     state_value |-> "OK",
     state_updated_timestamp |-> now]

update_state_new(alarm, reason, reason_data, state_value, now) ==
    [alarm EXCEPT
       !.history = Append(@, <<"StateUpdate", reason, reason_data,
                               state_value, now>>),
       !.state_reason = reason,
       !.state_reason_data = reason_data,
       !.state_value = state_value,
       !.state_updated_timestamp = now]

update_state(alarm, reason, reason_data, state_value, now) ==
    [alarm EXCEPT
       !.history = Append(@, <<"StateUpdate", alarm.state_reason,
                               alarm.state_reason_data, alarm.state_value,
                               alarm.state_updated_timestamp>>),
       !.state_reason = reason,
       !.state_reason_data = reason_data,
       !.state_value = state_value,
       !.state_updated_timestamp = now]

---------------------------------------------------------------------------
(* Inputs of the alarm operations *)

AlarmNames == {"a", "b"}

AlarmConfigs ==
    {[namespace |-> "N", metric_name |-> "M",
      comparison_operator |-> "GreaterThanThreshold",
      evaluation_periods |-> 1, period |-> 60, threshold |-> t,
      statistic |-> "Average", description |-> "d",
      dimensions |-> <<[name |-> "k", value |-> "v"]>>,
      alarm_actions |-> <<"arn:act">>, ok_actions |-> << >>,
      insufficient_data_actions |-> << >>, unit |-> None,
      actions_enabled |-> TRUE] : t \in {1, 2}}

\* "missing" is never put
DeletedAlarmNames == AlarmNames \cup {"missing"}

\* lists of names: empty, single, distinct, repeated, with an unregistered one
AlarmNameLists ==
    {<< >>} \cup {<<n>> : n \in DeletedAlarmNames}
            \cup {<<"a", "b">>, <<"a", "a">>, <<"missing", "a">>,
                  <<"b", "missing">>}

Reasons == {"r"}

\* texts that json.loads accepts
WellFormedJSON == {"{}", "[1]"}

ReasonDatas == {None, "{}", "{x"}

StateValues == {"OK", "ALARM", "INSUFFICIENT_DATA", "BOGUS"}

\* json.loads(text) returns instead of raising ValueError
json_loads_ok(text) == text \in WellFormedJSON

---------------------------------------------------------------------------
(* Alarm registry *)

get_alarms_by_alarm_names(alarmsD, alarm_names) ==
    {alarmsD[n] : n \in {m \in DOMAIN alarmsD :
                            alarmsD[m].name \in Range(alarm_names)}}

delete_alarms_first(alarmsD, alarm_names) ==
    IF alarm_names = << >> THEN alarmsD
    ELSE DictPop(alarmsD, Head(alarm_names))

RECURSIVE delete_alarms(_, _)
delete_alarms(alarmsD, alarm_names) ==
    IF alarm_names = << >> THEN alarmsD
    ELSE delete_alarms(DictPop(alarmsD, Head(alarm_names)), Tail(alarm_names))

\* the error set_alarm_state raises, None when it raises none
set_alarm_state_error_value_first(alarmsD, alarm_name, reason_data, state_value) ==
    IF reason_data # None /\ ~json_loads_ok(reason_data) THEN "InvalidFormat"
    ELSE IF state_value \notin {"OK", "ALARM", "INSUFFICIENT_DATA"}
         THEN "InvalidParameterValue"
    ELSE IF alarm_name \notin DOMAIN alarmsD THEN "ResourceNotFound"
    ELSE None

set_alarm_state_error_no_json(alarmsD, alarm_name, reason_data, state_value) ==
    IF alarm_name \notin DOMAIN alarmsD THEN "ResourceNotFound"
    ELSE IF state_value \notin {"OK", "ALARM", "INSUFFICIENT_DATA"}
         THEN "InvalidParameterValue"
    ELSE None

set_alarm_state_error_no_value(alarmsD, alarm_name, reason_data, state_value) ==
    IF reason_data # None /\ ~json_loads_ok(reason_data) THEN "InvalidFormat"
    ELSE IF alarm_name \notin DOMAIN alarmsD THEN "ResourceNotFound"
    ELSE None

set_alarm_state_error(alarmsD, alarm_name, reason_data, state_value) ==
    IF reason_data # None /\ ~json_loads_ok(reason_data) THEN "InvalidFormat"
    ELSE IF alarm_name \notin DOMAIN alarmsD THEN "ResourceNotFound"
    ELSE IF state_value \notin {"OK", "ALARM", "INSUFFICIENT_DATA"}
         THEN "InvalidParameterValue"
    ELSE None

PutMetricAlarm(name, cfg) ==
    /\ clock < MaxClock
    /\ alarms' = DictSet(alarms, name, FakeAlarm(name, cfg, clock))
    /\ clock' = clock + 1
    /\ last' = [op |-> "put_metric_alarm", args |-> <<name, cfg>>,
                error |-> None, ret |-> FakeAlarm(name, cfg, clock)]
    /\ set_state_calls' = DictSet(set_state_calls, name, 0)
    /\ UNCHANGED <<dashboards, metric_data, paged_metric_data, uuid_count,
                   chains, used, vpn_vars>>

DeleteAlarms(alarm_names) ==
    /\ alarms' = delete_alarms(alarms, alarm_names)
    /\ last' = [op |-> "delete_alarms", args |-> <<alarm_names>>,
                error |-> None, ret |-> None]
    /\ set_state_calls' = delete_alarms(set_state_calls, alarm_names)
    /\ UNCHANGED <<dashboards, metric_data, paged_metric_data, clock,
                   uuid_count, chains, used, vpn_vars>>

SetAlarmState(alarm_name, reason, reason_data, state_value) ==
    LET err == set_alarm_state_error(alarms, alarm_name, reason_data,
                                     state_value)
    IN /\ err = None => clock < MaxClock
       /\ alarms' = IF err = None
                    THEN [alarms EXCEPT ![alarm_name] =
                            update_state(@, reason, reason_data,
                                         state_value, clock)]
                    ELSE alarms
       /\ clock' = IF err = None THEN clock + 1 ELSE clock
       /\ last' = [op |-> "set_alarm_state",
                   args |-> <<alarm_name, reason, reason_data, state_value>>,
                   error |-> err, ret |-> None]
       /\ set_state_calls' = IF err = None /\ alarm_name \in DOMAIN set_state_calls
                             THEN [set_state_calls EXCEPT ![alarm_name] = @ + 1]
                             ELSE set_state_calls
       /\ UNCHANGED <<dashboards, metric_data, paged_metric_data,
                      uuid_count, chains, used, vpn_vars>>

---------------------------------------------------------------------------
(* Dashboard registry *)

DEFAULT_ACCOUNT_ID == "123456789012"

make_arn_for_dashboard(account_id, name) ==
    <<"arn:aws:cloudwatch", account_id, "dashboard", name>>

Dashboard(name, body, now) ==
    [arn |-> make_arn_for_dashboard(DEFAULT_ACCOUNT_ID, name),
     name |-> name, body |-> body, last_modified |-> now]

DashboardNames == {"a", "b"}

\* "missing" is never put
DeletedDashboardNames == DashboardNames \cup {"missing"}

DashboardBodies == {"{}", "{w}"}

DashboardNameLists ==
    {<< >>} \cup {<<n>> : n \in DeletedDashboardNames}
            \cup {<<n, m>> : n \in DeletedDashboardNames,
                              m \in DeletedDashboardNames}

\* the registry delete_dashboards leaves and the pair it returns; the text of
\* the failure is represented by the set of names joined into it
delete_dashboards_partial(dashboardsD, names) ==
    LET to_delete == Range(names)
        all_dashboards == DOMAIN dashboardsD
        left_over == to_delete \ all_dashboards
    IN IF Cardinality(left_over) > 0
       THEN [dashboards |-> [d \in all_dashboards \ to_delete |-> dashboardsD[d]],
             ret |-> <<FALSE, left_over>>]
       ELSE [dashboards |-> [d \in all_dashboards \ to_delete |-> dashboardsD[d]],
             ret |-> <<TRUE, None>>]

delete_dashboards(dashboardsD, names) ==
    LET to_delete == Range(names)
        all_dashboards == DOMAIN dashboardsD
        left_over == to_delete \ all_dashboards
    IN IF Cardinality(left_over) > 0
       THEN [dashboards |-> dashboardsD, ret |-> <<FALSE, left_over>>]
       ELSE [dashboards |-> [d \in all_dashboards \ to_delete |-> dashboardsD[d]],
             ret |-> <<TRUE, None>>]

PutDashboard(name, body) ==
    /\ clock < MaxClock
    /\ dashboards' = DictSet(dashboards, name, Dashboard(name, body, clock))
    /\ clock' = clock + 1
    /\ last' = [op |-> "put_dashboard", args |-> <<name, body>>,
                error |-> None, ret |-> None]
    /\ UNCHANGED <<alarms, metric_data, paged_metric_data, uuid_count,
                   chains, used, set_state_calls, vpn_vars>>

DeleteDashboards(names) ==
    LET r == delete_dashboards(dashboards, names)
    IN /\ dashboards' = r.dashboards
       /\ last' = [op |-> "delete_dashboards", args |-> <<names>>,
                   error |-> None, ret |-> r.ret]
       /\ UNCHANGED <<alarms, metric_data, paged_metric_data, clock,
                      uuid_count, chains, used, set_state_calls, vpn_vars>>

---------------------------------------------------------------------------
(* Metric store *)

\* dateutil's parser.parse on a text "MM:SS" given as <<minutes, seconds>>
parser_parse(text) == 60 * text[1] + text[2]

MetricDatum(namespace, name, value, dimensions, timestamp, now) ==
    [namespace |-> namespace,
     name |-> name,
     value |-> value,
     timestamp |-> IF timestamp # NoTimestamp THEN timestamp ELSE now,
     dimensions |-> [i \in DOMAIN dimensions |->
                       Dimension(dimensions[i].Name, dimensions[i].Value)]]

\* metric_member.get("Timestamp"), parsed when it is not a datetime
member_timestamp(metric_member) ==
    IF metric_member.Timestamp.type = "NoneType" THEN NoTimestamp
    ELSE IF metric_member.Timestamp.type # "datetime"
         THEN parser_parse(metric_member.Timestamp.value)
    ELSE metric_member.Timestamp.value

\* float(metric_member.get("Value", 0))
member_value(metric_member) ==
    IF metric_member.HasValue THEN metric_member.Value ELSE 0

\* the list put_metric_data leaves in self.metric_data
put_metric_data(metric_dataL, namespace, members, now) ==
    metric_dataL \o
    [i \in DOMAIN members |->
       MetricDatum(namespace, members[i].MetricName, member_value(members[i]),
                   members[i].Dimensions, member_timestamp(members[i]), now)]

filter_any_dimension(md, namespace, name, dimensions) ==
    IF Truthy(namespace) /\ namespace # md.namespace THEN FALSE
    ELSE IF Truthy(name) /\ name # md.name THEN FALSE
    ELSE IF Len(dimensions) > 0
            /\ \A i \in DOMAIN dimensions :
                  Dimension(dimensions[i].Name, dimensions[i].Value)
                     \notin Range(md.dimensions)
         THEN FALSE
    ELSE TRUE

\* MetricDatum.filter
filter(md, namespace, name, dimensions) ==
    IF Truthy(namespace) /\ namespace # md.namespace THEN FALSE
    ELSE IF Truthy(name) /\ name # md.name THEN FALSE
    ELSE IF Len(dimensions) > 0
            /\ \E i \in DOMAIN dimensions :
                  Dimension(dimensions[i].Name, dimensions[i].Value)
                     \notin Range(md.dimensions)
         THEN FALSE
    ELSE TRUE

\* OOTB metrics of the registered providers: metric_providers is empty
metric_providers == << >>

aws_metric_data == metric_providers

get_all_metrics(metric_dataL) == metric_dataL \o aws_metric_data

get_filtered_metrics(metric_dataL, metric_name, namespace, dimensions) ==
    SelectSeq(get_all_metrics(metric_dataL),
              LAMBDA md : filter(md, namespace, metric_name, dimensions))

---------------------------------------------------------------------------
(* Statistics *)

\* iso_8601_datetime_without_milliseconds: the text "MM:SS" of a datetime,
\* given as <<minutes, seconds>>
iso_8601_datetime_without_milliseconds(dt) == <<dt \div 60, dt % 60>>

\* the datetimes the generator daterange yields (step is not 0)
RECURSIVE daterange(_, _, _, _)
daterange(start, stop, step, inclusive) ==
    IF (step > 0 /\ start < stop) \/ (step < 0 /\ stop < start)
    THEN <<start>> \o daterange(start + step, stop, step, inclusive)
    ELSE IF inclusive /\ start = stop THEN <<start>> ELSE << >>

\* Statistics.__init__
Statistics(stats, dt) ==
    [timestamp |-> iso_8601_datetime_without_milliseconds(dt),
     values |-> << >>, stats |-> stats]

RECURSIVE SumSeq(_)
SumSeq(values) ==
    IF values = << >> THEN 0 ELSE Head(values) + SumSeq(Tail(values))

\* the properties of Statistics; average is the fraction <<sum, count>>
sample_count(s) ==
    IF "SampleCount" \notin Range(s.stats) THEN None ELSE Len(s.values)

unit(s) == None

sum(s) == IF "Sum" \notin Range(s.stats) THEN None ELSE SumSeq(s.values)

minimum(s) ==
    IF "Minimum" \notin Range(s.stats) THEN None
    ELSE CHOOSE v \in Range(s.values) : \A w \in Range(s.values) : v <= w

maximum(s) ==
    IF "Maximum" \notin Range(s.stats) THEN None
    ELSE CHOOSE v \in Range(s.values) : \A w \in Range(s.values) : v >= w

average(s) ==
    IF "Average" \notin Range(s.stats) THEN None
    ELSE <<SumSeq(s.values), Len(s.values)>>

stats_filter_before_end(metric_dataL, namespace, metric_name, start_time, end_time) ==
    SelectSeq(metric_dataL,
              LAMBDA md : /\ md.namespace = namespace
                          /\ md.name = metric_name
                          /\ start_time <= md.timestamp
                          /\ md.timestamp < end_time)

\* filtered_data of get_metric_statistics, before it is sorted
stats_filter(metric_dataL, namespace, metric_name, start_time, end_time) ==
    SelectSeq(metric_dataL,
              LAMBDA md : /\ md.namespace = namespace
                          /\ md.name = metric_name
                          /\ start_time <= md.timestamp
                          /\ md.timestamp <= end_time)

\* sorted(data, key=lambda x: x.timestamp): points of one timestamp keep
\* their order
RECURSIVE sorted_by_timestamp(_)
sorted_by_timestamp(data) ==
    IF data = << >> THEN << >>
    ELSE LET h == Head(data)
             rest == sorted_by_timestamp(Tail(data))
         IN SelectSeq(rest, LAMBDA md : md.timestamp < h.timestamp)
            \o <<h>>
            \o SelectSeq(rest, LAMBDA md : md.timestamp >= h.timestamp)

\* the index at which the inner while loop stops: the first idx from idx on
\* that is past the end or whose point is not before bound
RECURSIVE while_end(_, _, _)
while_end(filtered_data, idx, bound) ==
    IF idx <= Len(filtered_data) /\ filtered_data[idx].timestamp < bound
    THEN while_end(filtered_data, idx + 1, bound)
    ELSE idx

RECURSIVE statistics_loop_keep_empty(_, _, _, _, _, _)
statistics_loop_keep_empty(dts, i, idx, filtered_data, period_delta, stats) ==
    IF i > Len(dts) THEN << >>
    ELSE LET dt == dts[i]
             stop == while_end(filtered_data, idx, dt + period_delta)
             s == [Statistics(stats, dt) EXCEPT !.values =
                     [k \in 1..(stop - idx) |-> filtered_data[idx + k - 1].value]]
         IN <<s>> \o statistics_loop_keep_empty(dts, i + 1, stop, filtered_data,
                                                period_delta, stats)

\* the list the for loop of get_metric_statistics builds from dts[i] on, idx
\* being the first point not yet assigned to a window
RECURSIVE statistics_loop(_, _, _, _, _, _)
statistics_loop(dts, i, idx, filtered_data, period_delta, stats) ==
    IF i > Len(dts) THEN << >>
    ELSE LET dt == dts[i]
             stop == while_end(filtered_data, idx, dt + period_delta)
             s == [Statistics(stats, dt) EXCEPT !.values =
                     [k \in 1..(stop - idx) |-> filtered_data[idx + k - 1].value]]
         IN (IF s.values = << >> THEN << >> ELSE <<s>>)
            \o statistics_loop(dts, i + 1, stop, filtered_data, period_delta,
                               stats)

\* the outcome of get_metric_statistics; daterange asserts that the step is
\* not 0 when the loop asks for its first datetime
get_metric_statistics(metric_dataL, namespace, metric_name, start_time, end_time, period, stats) ==
    LET period_delta == period
        filtered_data ==
            sorted_by_timestamp(stats_filter(metric_dataL, namespace,
                                             metric_name, start_time, end_time))
    IN IF filtered_data = << >> THEN [error |-> None, ret |-> << >>]
       ELSE IF period_delta = 0
            THEN [error |-> "AssertionError", ret |-> None]
       ELSE [error |-> None,
             ret |-> statistics_loop(
                        daterange(filtered_data[1].timestamp,
                                  filtered_data[Len(filtered_data)].timestamp
                                     + period_delta,
                                  period_delta, FALSE),
                        1, 1, filtered_data, period_delta, stats)]

GetMetricStatistics(namespace, metric_name, start_time, end_time, period, stats) ==
    LET r == get_metric_statistics(metric_data, namespace, metric_name,
                                   start_time, end_time, period, stats)
    IN /\ last' = [op |-> "get_metric_statistics",
                   args |-> <<namespace, metric_name, start_time, end_time,
                              period, stats>>,
                   error |-> r.error, ret |-> r.ret]
       /\ UNCHANGED <<cw_vars, vpn_vars>>

---------------------------------------------------------------------------
(* Pagination *)

PageSize == 500

\* metrics[a:] and metrics[:b]
SliceFrom(metrics, a) == SubSeq(metrics, a + 1, Len(metrics))

SliceTo(metrics, b) ==
    SubSeq(metrics, 1, IF b < Len(metrics) THEN b ELSE Len(metrics))

_get_paginated_ge(paged, metrics, next_token) ==
    IF Len(metrics) >= PageSize
    THEN [paged |-> DictSet(paged, next_token, SliceFrom(metrics, PageSize)),
          ret |-> <<next_token, SliceTo(metrics, PageSize)>>]
    ELSE [paged |-> paged, ret |-> <<NoToken, metrics>>]

_get_paginated_skip(paged, metrics, next_token) ==
    IF Len(metrics) > PageSize
    THEN [paged |-> DictSet(paged, next_token, SliceFrom(metrics, PageSize + 1)),
          ret |-> <<next_token, SliceTo(metrics, PageSize)>>]
    ELSE [paged |-> paged, ret |-> <<NoToken, metrics>>]

_get_paginated_always(paged, metrics, next_token) ==
    [paged |-> DictSet(paged, next_token, SliceFrom(metrics, PageSize)),
     ret |-> <<next_token, SliceTo(metrics, PageSize)>>]

\* the token map _get_paginated leaves and the pair it returns
_get_paginated(paged, metrics, next_token) ==
    IF Len(metrics) > PageSize
    THEN [paged |-> DictSet(paged, next_token, SliceFrom(metrics, PageSize)),
          ret |-> <<next_token, SliceTo(metrics, PageSize)>>]
    ELSE [paged |-> paged, ret |-> <<NoToken, metrics>>]

consume_token_keep(paged, next_token) == paged

\* del self.paged_metric_data[next_token]
consume_token(paged, next_token) == DictPop(paged, next_token)

list_metrics_lenient(paged, metric_dataL, next_token, namespace, metric_name, dimensions, fresh) ==
    IF next_token # NoToken /\ next_token \in DOMAIN paged
    THEN LET metrics == paged[next_token]
             r == _get_paginated(consume_token(paged, next_token),
                                 metrics, fresh)
         IN [error |-> None, paged |-> r.paged, ret |-> r.ret]
    ELSE LET metrics == get_filtered_metrics(metric_dataL, metric_name,
                                             namespace, dimensions)
             r == _get_paginated(paged, metrics, fresh)
         IN [error |-> None, paged |-> r.paged, ret |-> r.ret]

list_metrics_live(paged, metric_dataL, next_token, namespace, metric_name, dimensions, fresh) ==
    IF next_token # NoToken
    THEN IF next_token \notin DOMAIN paged
         THEN [error |-> "PaginationException", paged |-> paged,
               ret |-> <<NoToken, << >> >>]
         ELSE LET all == get_all_metrics(metric_dataL)
                  metrics == SliceFrom(all, Len(all) - Len(paged[next_token]))
                  r == _get_paginated(consume_token(paged, next_token),
                                      metrics, fresh)
              IN [error |-> None, paged |-> r.paged, ret |-> r.ret]
    ELSE LET metrics == get_filtered_metrics(metric_dataL, metric_name,
                                             namespace, dimensions)
             r == _get_paginated(paged, metrics, fresh)
         IN [error |-> None, paged |-> r.paged, ret |-> r.ret]

\* the outcome of list_metrics: error, token map, returned pair
list_metrics(paged, metric_dataL, next_token, namespace, metric_name, dimensions, fresh) ==
    IF next_token # NoToken
    THEN IF next_token \notin DOMAIN paged
         THEN [error |-> "PaginationException", paged |-> paged,
               ret |-> <<NoToken, << >> >>]
         ELSE LET metrics == paged[next_token]
                  r == _get_paginated(consume_token(paged, next_token),
                                      metrics, fresh)
              IN [error |-> None, paged |-> r.paged, ret |-> r.ret]
    ELSE LET metrics == get_filtered_metrics(metric_dataL, metric_name,
                                             namespace, dimensions)
             r == _get_paginated(paged, metrics, fresh)
         IN [error |-> None, paged |-> r.paged, ret |-> r.ret]

---------------------------------------------------------------------------
(* Inputs of the metric operations *)

\* a PutMetricData request of k members whose values continue the numbering
\* base, base + 1, ... so that the stored points are pairwise distinct
Batch(k, base) ==
    [i \in 1..k |-> [MetricName |-> "M", HasValue |-> TRUE, Value |-> base + i,
                     Dimensions |-> << >>,
                     Timestamp |-> [type |-> "NoneType"]]]

\* namespace and size of the requests
MetricBatches == {<<"N", 500>>, <<"N", 700>>, <<"O", 501>>}

FilterNamespaces == {None, "N"}

TokenInputs == 0..MaxTokens

\* the Timestamp member of a request: the datetime t itself or its text
TimestampMember(type, t) ==
    IF type = "str" THEN [type |-> "str", value |-> <<t \div 60, t % 60>>]
    ELSE [type |-> "datetime", value |-> t]

\* a request of one point
Point(namespace, name, value, type, t) ==
    [MetricName |-> name, HasValue |-> TRUE, Value |-> value,
     Dimensions |-> << >>, Timestamp |-> TimestampMember(type, t)]

\* the requests of the statistics specification: namespace, name, value,
\* type of the timestamp, timestamp
StatPoints ==
    {<<"N", "M", 1, "datetime", t>> : t \in {0, 30, 130}}
    \cup {<<"N", "M", 1, "str", 70>>, <<"N", "M", 2, "datetime", 60>>,
          <<"N", "M", 2, "datetime", 200>>, <<"O", "M", 5, "datetime", 30>>,
          <<"N", "K", 5, "datetime", 70>>}

StatRanges == {<<0, 200>>, <<30, 130>>}

StatPeriods == {60, 30, 0, -60}

\* the Dimensions.member lists of the stored points
DimensionLists ==
    {<< >>,
     <<[Name |-> "d", Value |-> "1"]>>,
     <<[Name |-> "d", Value |-> "1"], [Name |-> "e", Value |-> "1"]>>}

\* the dimensions a listing asks for: those and one of another value
RequestedDimensions == DimensionLists \cup {<<[Name |-> "d", Value |-> "2"]>>}

\* a request of one point that has dimensions and no timestamp
DimensionPoint(name, dimensions) ==
    [MetricName |-> name, HasValue |-> TRUE, Value |-> 1,
     Dimensions |-> dimensions, Timestamp |-> [type |-> "NoneType"]]

FilterCriteria == {None, "", "N"} \X {None, "M"} \X RequestedDimensions

---------------------------------------------------------------------------
(* Metric operations *)

PutMetricData(namespace, members) ==
    LET reads_clock == \E i \in DOMAIN members :
                          members[i].Timestamp.type = "NoneType"
    IN /\ reads_clock => clock < MaxClock
       /\ Len(metric_data) + Len(members) <= MaxPoints
       /\ metric_data' = put_metric_data(metric_data, namespace, members, clock)
       /\ clock' = IF reads_clock THEN clock + 1 ELSE clock
       /\ last' = [op |-> "put_metric_data",
                   args |-> <<namespace, Len(members)>>,
                   error |-> None, ret |-> None]
       /\ UNCHANGED <<alarms, dashboards, paged_metric_data, uuid_count,
                      chains, used, set_state_calls, vpn_vars>>

\* chains and used are history variables: chains[t] holds, for the listing
\* that token t continues, the result set of its first call (full), the
\* items returned so far (got) and the page sizes so far (sizes); used is
\* the set of tokens that a successful call has presented
ListMetrics(next_token, namespace, metric_name, dimensions) ==
    LET fresh == uuid_count + 1
        r == list_metrics(paged_metric_data, metric_data, next_token,
                          namespace, metric_name, dimensions, fresh)
        issued == r.error = None /\ r.ret[1] # NoToken
        presented == next_token # NoToken
        continues == presented /\ next_token \in DOMAIN chains
        chain == [full |-> IF continues THEN chains[next_token].full
                           ELSE get_filtered_metrics(metric_data, metric_name,
                                                     namespace, dimensions),
                  got |-> IF continues THEN chains[next_token].got \o r.ret[2]
                          ELSE r.ret[2],
                  sizes |-> IF continues
                            THEN Append(chains[next_token].sizes, Len(r.ret[2]))
                            ELSE <<Len(r.ret[2])>>]
    IN /\ issued => uuid_count < MaxTokens
       /\ paged_metric_data' = r.paged
       /\ uuid_count' = IF issued THEN fresh ELSE uuid_count
       /\ used' = IF r.error = None /\ presented
                  THEN used \cup {next_token} ELSE used
       /\ chains' = IF r.error # None THEN chains
                    ELSE IF issued
                         THEN DictSet(DictPop(chains, next_token), fresh, chain)
                         ELSE DictPop(chains, next_token)
       /\ last' = [op |-> "list_metrics",
                   args |-> <<next_token, namespace, metric_name, dimensions>>,
                   error |-> r.error,
                   ret |-> IF r.error = None
                           THEN [token |-> r.ret[1], page |-> r.ret[2],
                                 chain |-> IF issued THEN None ELSE chain]
                           ELSE None]
       /\ UNCHANGED <<alarms, dashboards, metric_data, clock,
                      set_state_calls, vpn_vars>>

---------------------------------------------------------------------------
(* VPN gateways *)

\* key.startswith(prefix), an id being the pair of its prefix and the rest
startswith(key, prefix) == key[1] = prefix

\* random_vpn_gateway_id: the id after count ids were issued; no id is
\* issued twice
random_vpn_gateway_id(count) == <<"vgw-", count + 1>>

\* the VPCs that get_vpc finds; their ids begin with vpc-
KnownVpcs == {<<"vpc-", "1">>, <<"vpc-", "2">>}

\* the error get_vpc raises, None when it raises none
get_vpc_error(vpc_id) ==
    IF vpc_id \notin KnownVpcs THEN "InvalidVPCIdError" ELSE None

\* VPCGatewayAttachment.__init__
VPCGatewayAttachment(vpc_id, gateway_id, state) ==
    [vpc_id |-> vpc_id, gateway_id |-> gateway_id, state |-> state]

\* VpnGateway.__init__ with the default state
VpnGateway(gateway_id, gateway_type, amazon_side_asn, availability_zone, tags) ==
    [id |-> gateway_id,
     type |-> gateway_type,
     amazon_side_asn |-> amazon_side_asn,
     availability_zone |-> availability_zone,
     state |-> "available",
     tags |-> IF tags = None THEN EmptyDict ELSE tags,
     attachments |-> EmptyDict]

\* the error get_vpn_gateway raises, None when it raises none
get_vpn_gateway_error(gateways, vpn_gateway_id) ==
    IF vpn_gateway_id \notin DOMAIN gateways THEN "InvalidVpnGatewayIdError"
    ELSE None

\* the attachments left by the loop popping the keys that begin with vpc-
pop_vpc_keys(attachments) ==
    [key \in {k \in DOMAIN attachments : ~startswith(k, "vpc-")} |->
       attachments[key]]

attach_vpn_gateway_keep(gateways, vpn_gateway_id, vpc_id) ==
    IF get_vpn_gateway_error(gateways, vpn_gateway_id) # None
    THEN [error |-> get_vpn_gateway_error(gateways, vpn_gateway_id),
          vpn_gateways |-> gateways, ret |-> None]
    ELSE IF get_vpc_error(vpc_id) # None
    THEN [error |-> get_vpc_error(vpc_id), vpn_gateways |-> gateways,
          ret |-> None]
    ELSE LET attachment == VPCGatewayAttachment(vpc_id, None, "attached")
         IN [error |-> None,
             vpn_gateways |->
                [gateways EXCEPT ![vpn_gateway_id].attachments =
                    DictSet(@, vpc_id, attachment)],
             ret |-> attachment]

attach_vpn_gateway_pop_first(gateways, vpn_gateway_id, vpc_id) ==
    IF get_vpn_gateway_error(gateways, vpn_gateway_id) # None
    THEN [error |-> get_vpn_gateway_error(gateways, vpn_gateway_id),
          vpn_gateways |-> gateways, ret |-> None]
    ELSE IF get_vpc_error(vpc_id) # None
    THEN [error |-> get_vpc_error(vpc_id),
          vpn_gateways |->
             [gateways EXCEPT ![vpn_gateway_id].attachments = pop_vpc_keys(@)],
          ret |-> None]
    ELSE LET attachment == VPCGatewayAttachment(vpc_id, None, "attached")
         IN [error |-> None,
             vpn_gateways |->
                [gateways EXCEPT ![vpn_gateway_id].attachments =
                    DictSet(pop_vpc_keys(@), vpc_id, attachment)],
             ret |-> attachment]

\* the outcome of attach_vpn_gateway: error, registry, returned attachment
attach_vpn_gateway(gateways, vpn_gateway_id, vpc_id) ==
    IF get_vpn_gateway_error(gateways, vpn_gateway_id) # None
    THEN [error |-> get_vpn_gateway_error(gateways, vpn_gateway_id),
          vpn_gateways |-> gateways, ret |-> None]
    ELSE IF get_vpc_error(vpc_id) # None
    THEN [error |-> get_vpc_error(vpc_id), vpn_gateways |-> gateways,
          ret |-> None]
    ELSE LET attachment == VPCGatewayAttachment(vpc_id, None, "attached")
         IN [error |-> None,
             vpn_gateways |->
                [gateways EXCEPT ![vpn_gateway_id].attachments =
                    DictSet(pop_vpc_keys(@), vpc_id, attachment)],
             ret |-> attachment]

detach_vpn_gateway_pop(gateways, vpn_gateway_id, vpc_id) ==
    IF get_vpn_gateway_error(gateways, vpn_gateway_id) # None
    THEN [error |-> get_vpn_gateway_error(gateways, vpn_gateway_id),
          vpn_gateways |-> gateways, ret |-> None]
    ELSE IF vpc_id \notin DOMAIN gateways[vpn_gateway_id].attachments
    THEN [error |-> "InvalidVpnGatewayAttachmentError",
          vpn_gateways |-> gateways, ret |-> None]
    ELSE [error |-> None,
          vpn_gateways |->
             [gateways EXCEPT ![vpn_gateway_id].attachments =
                 DictPop(@, vpc_id)],
          ret |-> [gateways[vpn_gateway_id].attachments[vpc_id]
                      EXCEPT !.state = "detached"]]

detach_vpn_gateway_lenient(gateways, vpn_gateway_id, vpc_id) ==
    IF get_vpn_gateway_error(gateways, vpn_gateway_id) # None
    THEN [error |-> get_vpn_gateway_error(gateways, vpn_gateway_id),
          vpn_gateways |-> gateways, ret |-> None]
    ELSE LET detached == VPCGatewayAttachment(vpc_id, None, "detached")
         IN [error |-> None,
             vpn_gateways |->
                [gateways EXCEPT ![vpn_gateway_id].attachments =
                    DictSet(@, vpc_id, detached)],
             ret |-> detached]

\* the outcome of detach_vpn_gateway: error, registry, returned attachment
detach_vpn_gateway(gateways, vpn_gateway_id, vpc_id) ==
    IF get_vpn_gateway_error(gateways, vpn_gateway_id) # None
    THEN [error |-> get_vpn_gateway_error(gateways, vpn_gateway_id),
          vpn_gateways |-> gateways, ret |-> None]
    ELSE IF vpc_id \notin DOMAIN gateways[vpn_gateway_id].attachments
    THEN [error |-> "InvalidVpnGatewayAttachmentError",
          vpn_gateways |-> gateways, ret |-> None]
    ELSE [error |-> None,
          vpn_gateways |->
             [gateways EXCEPT
                 ![vpn_gateway_id].attachments[vpc_id].state = "detached"],
          ret |-> [gateways[vpn_gateway_id].attachments[vpc_id]
                      EXCEPT !.state = "detached"]]

delete_vpn_gateway_pop(gateways, vpn_gateway_id) ==
    IF vpn_gateway_id \notin DOMAIN gateways
    THEN [error |-> "InvalidVpnGatewayIdError", vpn_gateways |-> gateways,
          ret |-> None]
    ELSE [error |-> None,
          vpn_gateways |-> DictPop(gateways, vpn_gateway_id),
          ret |-> [gateways[vpn_gateway_id] EXCEPT !.state = "deleted"]]

\* the outcome of delete_vpn_gateway: error, registry, returned gateway
delete_vpn_gateway(gateways, vpn_gateway_id) ==
    IF vpn_gateway_id \notin DOMAIN gateways
    THEN [error |-> "InvalidVpnGatewayIdError", vpn_gateways |-> gateways,
          ret |-> None]
    ELSE [error |-> None,
          vpn_gateways |->
             [gateways EXCEPT ![vpn_gateway_id].state = "deleted"],
          ret |-> [gateways[vpn_gateway_id] EXCEPT !.state = "deleted"]]

\* the arguments of the gateway operations: the gateway <<"vgw-", 0>> and
\* the VPC <<"vpc-", "9">> do not exist
GatewayIds == {<<"vgw-", n>> : n \in 0..MaxGateways}

VpcIds == KnownVpcs \cup {<<"vpc-", "9">>}

AmazonSideAsns == {None, "65001"}

CreateVpnGateway(gateway_type, amazon_side_asn, availability_zone, tags) ==
    LET vpn_gateway_id == random_vpn_gateway_id(vgw_count)
        vpn_gateway == VpnGateway(vpn_gateway_id, gateway_type,
                                  amazon_side_asn, availability_zone, tags)
    IN /\ vgw_count < MaxGateways
       /\ vgw_count' = vgw_count + 1
       /\ vpn_gateways' = DictSet(vpn_gateways, vpn_gateway_id, vpn_gateway)
       /\ keys_before' = {}
       /\ last' = [op |-> "create_vpn_gateway",
                   args |-> <<gateway_type, amazon_side_asn,
                              availability_zone, tags>>,
                   error |-> None, ret |-> vpn_gateway]
       /\ UNCHANGED cw_vars

AttachVpnGateway(vpn_gateway_id, vpc_id) ==
    LET r == attach_vpn_gateway(vpn_gateways, vpn_gateway_id, vpc_id)
    IN /\ vpn_gateways' = r.vpn_gateways
       /\ last' = [op |-> "attach_vpn_gateway",
                   args |-> <<vpn_gateway_id, vpc_id>>,
                   error |-> r.error, ret |-> r.ret]
       /\ keys_before' = IF r.error = None
                          THEN DOMAIN vpn_gateways[vpn_gateway_id].attachments
                          ELSE {}
       /\ UNCHANGED <<cw_vars, vgw_count>>

DetachVpnGateway(vpn_gateway_id, vpc_id) ==
    LET r == detach_vpn_gateway(vpn_gateways, vpn_gateway_id, vpc_id)
    IN /\ vpn_gateways' = r.vpn_gateways
       /\ last' = [op |-> "detach_vpn_gateway",
                   args |-> <<vpn_gateway_id, vpc_id>>,
                   error |-> r.error, ret |-> r.ret]
       /\ keys_before' = {}
       /\ UNCHANGED <<cw_vars, vgw_count>>

DeleteVpnGateway(vpn_gateway_id) ==
    LET r == delete_vpn_gateway(vpn_gateways, vpn_gateway_id)
    IN /\ vpn_gateways' = r.vpn_gateways
       /\ last' = [op |-> "delete_vpn_gateway", args |-> <<vpn_gateway_id>>,
                   error |-> r.error, ret |-> r.ret]
       /\ keys_before' = {}
       /\ UNCHANGED <<cw_vars, vgw_count>>

---------------------------------------------------------------------------
(* Specifications *)

Init ==
    /\ alarms = EmptyDict
    /\ dashboards = EmptyDict
    /\ metric_data = << >>
    /\ paged_metric_data = EmptyDict
    /\ clock = 0
    /\ uuid_count = 0
    /\ chains = EmptyDict
    /\ used = {}
    /\ set_state_calls = EmptyDict
    /\ vpn_gateways = EmptyDict
    /\ vgw_count = 0
    /\ keys_before = {}
    /\ last = [op |-> "__init__", args |-> << >>, error |-> None, ret |-> None]

NextAlarm ==
    \/ \E name \in AlarmNames, cfg \in AlarmConfigs : PutMetricAlarm(name, cfg)
    \/ \E alarm_name \in AlarmNames, reason \in Reasons,
          reason_data \in ReasonDatas, state_value \in StateValues :
          SetAlarmState(alarm_name, reason, reason_data, state_value)
    \/ \E alarm_names \in AlarmNameLists : DeleteAlarms(alarm_names)

\* the alarm registry
SpecAlarm == Init /\ [][NextAlarm]_vars

NextDash ==
    \/ \E name \in DashboardNames, body \in DashboardBodies :
          PutDashboard(name, body)
    \/ \E names \in DashboardNameLists : DeleteDashboards(names)

\* the dashboard registry
SpecDash == Init /\ [][NextDash]_vars

NextPage ==
    \/ \E b \in MetricBatches :
          PutMetricData(b[1], Batch(b[2], Len(metric_data)))
    \/ \E next_token \in TokenInputs, namespace \in FilterNamespaces :
          ListMetrics(next_token, namespace, None, << >>)

\* the metric store and its paginated listing
SpecPage == Init /\ [][NextPage]_vars

NextFrame ==
    \/ PutMetricData("N", Batch(700, Len(metric_data)))
    \/ \E next_token \in TokenInputs : ListMetrics(next_token, None, None, << >>)
    \/ PutMetricAlarm("a", CHOOSE cfg \in AlarmConfigs : cfg.threshold = 1)
    \/ PutDashboard("a", "{}")

\* the listing beside the alarm and dashboard registries
SpecFrame == Init /\ [][NextFrame]_vars

NextStats ==
    \/ \E p \in StatPoints :
          /\ Len(metric_data) < MaxSamples
          /\ PutMetricData(p[1], <<Point(p[1], p[2], p[3], p[4], p[5])>>)
    \/ \E range \in StatRanges, period \in StatPeriods :
          GetMetricStatistics("N", "M", range[1], range[2], period,
                              <<"SampleCount", "Sum">>)

\* the metric store and its statistics
SpecStats == Init /\ [][NextStats]_vars

NextFilter ==
    \/ \E namespace \in {"N", "O"}, name \in {"M", "K"},
          dimensions \in DimensionLists :
          /\ Len(metric_data) < MaxFilterPoints
          /\ PutMetricData(namespace, <<DimensionPoint(name, dimensions)>>)
    \/ \E c \in FilterCriteria : ListMetrics(NoToken, c[1], c[2], c[3])

\* the metric store and its filtered listing
SpecFilter == Init /\ [][NextFilter]_vars

NextVpn ==
    \/ \E amazon_side_asn \in AmazonSideAsns :
          CreateVpnGateway("ipsec.1", amazon_side_asn, None, None)
    \/ \E g \in GatewayIds, v \in VpcIds : AttachVpnGateway(g, v)
    \/ \E g \in GatewayIds, v \in VpcIds : DetachVpnGateway(g, v)
    \/ \E g \in GatewayIds : DeleteVpnGateway(g)

\* the VPN gateway backend
SpecVpn == Init /\ [][NextVpn]_vars

Next ==
    \/ NextAlarm \/ NextDash \/ NextPage \/ NextFrame \/ NextStats
    \/ NextFilter \/ NextVpn

Spec == Init /\ [][Next]_vars

---------------------------------------------------------------------------
(* Properties of the listing *)

Min(a, b) == IF a < b THEN a ELSE b

\* the result set of the fresh listing recorded in the call record c,
\* computed on the metric data md
ResultSet(c, md) == get_filtered_metrics(md, c.args[3], c.args[2], c.args[4])

\* C1: a continuation token is single-use: after a successful list_metrics
\* call presenting token T, T is not a key of paged_metric_data, and every
\* later list_metrics call presenting T raises PaginationException, whatever
\* was called in between.
C1_TokenSingleUse ==
    [][/\ \A t \in used' : t \notin DOMAIN paged_metric_data'
       /\ (last'.op = "list_metrics" /\ last'.args[1] \in used)
             => last'.error = "PaginationException"]_vars

\* a used token was presented again, after a put_metric_data or another
\* listing left other tokens stored, and was refused
C1_Witness ==
    /\ last.op = "list_metrics"
    /\ last.args[1] \in used
    /\ last.error = "PaginationException"
    /\ DOMAIN paged_metric_data # {}

\* C2: a list_metrics call without a token whose result set has n items
\* returns its first min(n, 500) items in order and returns a token iff
\* n > 500; the token is then mapped to the items from position 500 onward
\* and the other tokens are kept; when n <= 500 the token map is unchanged.
C2_FreshListing ==
    [][(last'.op = "list_metrics" /\ last'.args[1] = NoToken) =>
         LET result == ResultSet(last', metric_data)
             n == Len(result)
             token == last'.ret.token
         IN /\ last'.error = None
            /\ last'.ret.page = SubSeq(result, 1, Min(n, 500))
            /\ token # NoToken <=> n > 500
            /\ n > 500 =>
                 /\ token \notin DOMAIN paged_metric_data
                 /\ DOMAIN paged_metric_data' =
                      DOMAIN paged_metric_data \cup {token}
                 /\ paged_metric_data'[token] = SubSeq(result, 501, n)
                 /\ \A t \in DOMAIN paged_metric_data :
                       paged_metric_data'[t] = paged_metric_data[t]
            /\ n <= 500 => paged_metric_data' = paged_metric_data]_vars

\* a fresh listing of more than 500 items returned 500 items and a token
\* while another token was stored
C2_Witness ==
    /\ last.op = "list_metrics"
    /\ last.args[1] = NoToken
    /\ last.error = None
    /\ last.ret.token # NoToken
    /\ Len(last.ret.page) = 500
    /\ Cardinality(DOMAIN paged_metric_data) = 2

\* the chain c returned full pages only, but for the last of its n pages
FullPages(c, n) == \A i \in 1..n : c.sizes[i] = 500

\* C3: following the tokens from a fresh list_metrics call until a call
\* returns no token, the pages concatenated in call order are the result set
\* of the first call, every page but the last has 500 items, and 1200 items
\* come as pages of 500, 500 and 200 items; while a chain is under way the
\* pages returned so far followed by the stored remainder are that result set.
C3_ChainReturnsResultSet ==
    /\ \A t \in DOMAIN chains :
          /\ t \in DOMAIN paged_metric_data
          /\ chains[t].got \o paged_metric_data[t] = chains[t].full
          /\ FullPages(chains[t], Len(chains[t].sizes))
    /\ (last.op = "list_metrics" /\ last.error = None
          /\ last.ret.token = NoToken) =>
         LET c == last.ret.chain
         IN /\ c.got = c.full
            /\ FullPages(c, Len(c.sizes) - 1)
            /\ Len(c.full) = 1200 => c.sizes = <<500, 500, 200>>

\* a listing of 1200 items ended with its third call
C3_Witness ==
    /\ last.op = "list_metrics"
    /\ last.error = None
    /\ last.ret.token = NoToken
    /\ Len(last.ret.chain.full) = 1200
    /\ last.ret.chain.sizes = <<500, 500, 200>>

\* C4: a list_metrics call presenting a non-empty token that is not a key of
\* paged_metric_data raises PaginationException and leaves the token map,
\* the metric data, the alarms and the dashboards unchanged.
C4_UnknownTokenRefused ==
    [][(/\ last'.op = "list_metrics"
        /\ last'.args[1] # NoToken
        /\ last'.args[1] \notin DOMAIN paged_metric_data) =>
         /\ last'.error = "PaginationException"
         /\ paged_metric_data' = paged_metric_data
         /\ metric_data' = metric_data
         /\ alarms' = alarms
         /\ dashboards' = dashboards]_vars

\* an unknown token was refused while a token, metric data, an alarm and a
\* dashboard were stored
C4_Witness ==
    /\ last.op = "list_metrics"
    /\ last.error = "PaginationException"
    /\ last.args[1] \notin used
    /\ DOMAIN paged_metric_data # {}
    /\ DOMAIN alarms # {}
    /\ DOMAIN dashboards # {}

---------------------------------------------------------------------------
(* Properties of the alarm registry *)

BadJSON(reason_data) == reason_data # None /\ reason_data \notin {"{}", "[1]"}

BadStateValue(state_value) ==
    state_value # "OK" /\ state_value # "ALARM"
       /\ state_value # "INSUFFICIENT_DATA"

\* C5 as stated: set_alarm_state on a name that is not in the registry fails
\* with ResourceNotFound for every reason_data and state_value, and does not
\* change the registry.
C5_UnknownAlarmAlwaysNotFound ==
    [][(last'.op = "set_alarm_state" /\ last'.args[1] \notin DOMAIN alarms) =>
         /\ last'.error = "ResourceNotFound"
         /\ alarms' = alarms]_vars

\* C5, amended: set_alarm_state on a name that is not in the registry never
\* changes the registry and fails for every state_value: with InvalidFormat
\* when reason_data is non-null and not well-formed JSON, with
\* ResourceNotFound otherwise.
C5_UnknownAlarmFails ==
    [][(last'.op = "set_alarm_state" /\ last'.args[1] \notin DOMAIN alarms) =>
         /\ last'.error = IF BadJSON(last'.args[3]) THEN "InvalidFormat"
                          ELSE "ResourceNotFound"
         /\ alarms' = alarms]_vars

\* an unknown name with a state value outside the allowed set was refused
\* with ResourceNotFound while another alarm was registered
C5_Witness ==
    /\ last.op = "set_alarm_state"
    /\ last.args[1] \notin DOMAIN alarms
    /\ last.args[4] = "BOGUS"
    /\ last.error = "ResourceNotFound"
    /\ DOMAIN alarms # {}

\* C6: set_alarm_state on an existing alarm fails with InvalidFormat when
\* reason_data is non-null and not well-formed JSON, and (reason_data having
\* passed) with InvalidParameterValue when the state value is not OK, ALARM
\* or INSUFFICIENT_DATA; a failed call leaves the alarm's state_value,
\* state_reason, state_reason_data, state_updated_timestamp and history
\* unchanged.
C6_InvalidArgumentsRefused ==
    [][(last'.op = "set_alarm_state" /\ last'.args[1] \in DOMAIN alarms) =>
         LET name == last'.args[1]
             bad_json == BadJSON(last'.args[3])
             bad_value == BadStateValue(last'.args[4])
         IN /\ bad_json => last'.error = "InvalidFormat"
            /\ (bad_value /\ ~bad_json) => last'.error = "InvalidParameterValue"
            /\ (bad_json \/ bad_value) =>
                 /\ last'.error # None
                 /\ name \in DOMAIN alarms'
                 /\ alarms'[name].state_value = alarms[name].state_value
                 /\ alarms'[name].state_reason = alarms[name].state_reason
                 /\ alarms'[name].state_reason_data =
                      alarms[name].state_reason_data
                 /\ alarms'[name].state_updated_timestamp =
                      alarms[name].state_updated_timestamp
                 /\ alarms'[name].history = alarms[name].history]_vars

\* an alarm in state ALARM with a history was given an invalid state value
C6_Witness ==
    /\ last.op = "set_alarm_state"
    /\ last.error = "InvalidParameterValue"
    /\ last.args[1] \in DOMAIN alarms
    /\ alarms[last.args[1]].state_value = "ALARM"
    /\ Len(alarms[last.args[1]].history) >= 1

\* C7: a successful set_alarm_state appends exactly one record to the
\* alarm's history, tagged StateUpdate and holding the previous state_reason,
\* state_reason_data, state_value and state_updated_timestamp, then sets the
\* state fields to the arguments; the earlier records keep their content and
\* order and no other alarm changes.
C7_StateUpdateRecorded ==
    [][(last'.op = "set_alarm_state" /\ last'.error = None) =>
         LET name == last'.args[1]
             old == alarms[name]
             new == alarms'[name]
             k == Len(old.history)
         IN /\ name \in DOMAIN alarms
            /\ DOMAIN alarms' = DOMAIN alarms
            /\ Len(new.history) = k + 1
            /\ new.history[k + 1] =
                 <<"StateUpdate", old.state_reason, old.state_reason_data,
                   old.state_value, old.state_updated_timestamp>>
            /\ \A i \in 1..k : new.history[i] = old.history[i]
            /\ new.state_reason = last'.args[2]
            /\ new.state_reason_data = last'.args[3]
            /\ new.state_value = last'.args[4]
            /\ \A other \in DOMAIN alarms \ {name} :
                  alarms'[other] = alarms[other]]_vars

\* the second state change of an alarm succeeded beside another alarm
C7_Witness ==
    /\ last.op = "set_alarm_state"
    /\ last.error = None
    /\ Len(alarms[last.args[1]].history) = 2
    /\ alarms[last.args[1]].history[2][4] = "ALARM"
    /\ Cardinality(DOMAIN alarms) = 2

\* C8: right after put_metric_alarm(name, ...) get_alarms_by_alarm_names of
\* that name returns exactly one alarm; it carries the attributes put, state
\* OK, an empty state_reason, state_reason_data "{}" and an empty history,
\* whatever alarm of that name existed before; the alarms of other names are
\* unchanged.
C8_PutIsFullUpsert ==
    [][last'.op = "put_metric_alarm" =>
         LET name == last'.args[1]
             cfg == last'.args[2]
             got == get_alarms_by_alarm_names(alarms', <<name>>)
         IN /\ Cardinality(got) = 1
            /\ \A a \in got :
                  /\ a.name = name
                  /\ a.namespace = cfg.namespace
                  /\ a.metric_name = cfg.metric_name
                  /\ a.comparison_operator = cfg.comparison_operator
                  /\ a.evaluation_periods = cfg.evaluation_periods
                  /\ a.period = cfg.period
                  /\ a.threshold = cfg.threshold
                  /\ a.statistic = cfg.statistic
                  /\ a.description = cfg.description
                  /\ a.dimensions = cfg.dimensions
                  /\ a.alarm_actions = cfg.alarm_actions
                  /\ a.ok_actions = cfg.ok_actions
                  /\ a.insufficient_data_actions = cfg.insufficient_data_actions
                  /\ a.unit = cfg.unit
                  /\ a.actions_enabled = cfg.actions_enabled
                  /\ a.state_value = "OK"
                  /\ a.state_reason = ""
                  /\ a.state_reason_data = "{}"
                  /\ a.history = << >>
            /\ DOMAIN alarms' = DOMAIN alarms \cup {name}
            /\ \A other \in DOMAIN alarms \ {name} :
                  alarms'[other] = alarms[other]]_vars

\* an alarm was put as the third call that read the clock, beside another
\* alarm that is in state ALARM
C8_Witness ==
    /\ last.op = "put_metric_alarm"
    /\ last.args[1] = "a"
    /\ alarms["a"].configuration_updated_timestamp = 2
    /\ "b" \in DOMAIN alarms
    /\ alarms["b"].state_value = "ALARM"

\* C9: delete_alarms never fails; it removes every named alarm that exists,
\* ignores the names that are not registered and leaves the other alarms
\* unchanged; the same delete_alarms applied again leaves the registry as the
\* first application left it.
C9_DeleteAlarmsIdempotent ==
    [][last'.op = "delete_alarms" =>
         LET names == last'.args[1]
         IN /\ last'.error = None
            /\ DOMAIN alarms' = DOMAIN alarms \ Range(names)
            /\ \A other \in DOMAIN alarms' : alarms'[other] = alarms[other]
            /\ delete_alarms(alarms', names) = alarms']_vars

\* a registered and an unregistered name were deleted in one call and
\* another alarm stayed
C9_Witness ==
    /\ last.op = "delete_alarms"
    /\ last.args[1] = <<"missing", "a">>
    /\ DOMAIN alarms = {"b"}

---------------------------------------------------------------------------
(* Properties of the dashboard registry *)

\* C10: delete_dashboards is all-or-nothing: when a requested name is not
\* registered nothing is deleted and the failure reports exactly the missing
\* names; otherwise every requested dashboard is deleted, the others are kept
\* and the call succeeds.
C10_DeleteDashboardsAllOrNothing ==
    [][last'.op = "delete_dashboards" =>
         LET names == Range(last'.args[1])
             missing == names \ DOMAIN dashboards
         IN IF missing # {}
            THEN /\ dashboards' = dashboards
                 /\ last'.ret[1] = FALSE
                 /\ last'.ret[2] = missing
            ELSE /\ last'.ret[1] = TRUE
                 /\ DOMAIN dashboards' = DOMAIN dashboards \ names
                 /\ \A d \in DOMAIN dashboards' :
                       dashboards'[d] = dashboards[d]]_vars

\* a registered and an unregistered name were requested: the call failed
\* reporting the unregistered one and the registered one is still there
C10_Witness ==
    /\ last.op = "delete_dashboards"
    /\ last.args[1] = <<"a", "missing">>
    /\ last.ret[1] = FALSE
    /\ last.ret[2] = {"missing"}
    /\ DOMAIN dashboards = {"a", "b"}

---------------------------------------------------------------------------
(* Properties of the statistics *)

\* the indices of the stored points that the get_metric_statistics call
\* recorded in c asks for
Matching(c) ==
    {j \in DOMAIN metric_data :
        /\ metric_data[j].namespace = c.args[1]
        /\ metric_data[j].name = c.args[2]
        /\ c.args[3] <= metric_data[j].timestamp
        /\ metric_data[j].timestamp <= c.args[4]}

\* the datetime that the text of a window's timestamp stands for
WindowStart(s) == 60 * s.timestamp[1] + s.timestamp[2]

\* the matching points that fall in the window of width period starting at w
InWindow(c, w) ==
    {j \in Matching(c) : /\ w <= metric_data[j].timestamp
                         /\ metric_data[j].timestamp < w + c.args[5]}

RECURSIVE SumOfPoints(_)
SumOfPoints(js) ==
    IF js = {} THEN 0
    ELSE LET j == CHOOSE x \in js : TRUE
         IN metric_data[j].value + SumOfPoints(js \ {j})

PositivePeriodCall ==
    last.op = "get_metric_statistics" /\ last.args[5] > 0

\* C11: for a get_metric_statistics call with a positive period every
\* returned window holds at least one sample, the windows are in strictly
\* ascending order of start, and every start is the earliest matching
\* timestamp plus a non-negative whole multiple of the period; when no point
\* matches the result is empty.
C11_WindowsNonEmptyAscending ==
    PositivePeriodCall =>
       LET m == Matching(last)
           ret == last.ret
           period == last.args[5]
       IN /\ last.error = None
          /\ m = {} => ret = << >>
          /\ \A i \in DOMAIN ret :
                /\ Len(ret[i].values) >= 1
                /\ sample_count(ret[i]) >= 1
                /\ \E j \in m :
                      /\ \A k \in m : metric_data[j].timestamp
                                         <= metric_data[k].timestamp
                      /\ WindowStart(ret[i]) >= metric_data[j].timestamp
                      /\ (WindowStart(ret[i]) - metric_data[j].timestamp)
                            % period = 0
                /\ i < Len(ret) =>
                      /\ WindowStart(ret[i]) < WindowStart(ret[i + 1])
                      /\ (WindowStart(ret[i + 1]) - WindowStart(ret[i]))
                            % period = 0

\* two windows were returned around an empty one that was left out
C11_Witness ==
    /\ PositivePeriodCall
    /\ Len(last.ret) = 2
    /\ WindowStart(last.ret[2]) - WindowStart(last.ret[1]) = 2 * last.args[5]

\* C12: with a positive period every stored point of the namespace and name
\* with start <= timestamp <= end is counted in exactly one returned window,
\* the one with w <= timestamp < w + period, and no other point is counted:
\* SampleCount and Sum of a window are the count and sum of those points.
\* Points at 0, 30, 70, 130 of value 1, period 60 and range [0, 200] give the
\* windows 0 (2, 2), 60 (1, 1) and 120 (1, 1).
C12_PointsCountedOnce ==
    PositivePeriodCall =>
       LET m == Matching(last)
           ret == last.ret
       IN /\ \A i \in DOMAIN ret :
                LET js == InWindow(last, WindowStart(ret[i]))
                IN /\ sample_count(ret[i]) = Cardinality(js)
                   /\ sum(ret[i]) = SumOfPoints(js)
          /\ \A j \in m :
                Cardinality({i \in DOMAIN ret :
                               j \in InWindow(last, WindowStart(ret[i]))}) = 1
          /\ (/\ last.args[3] = 0 /\ last.args[4] = 200 /\ last.args[5] = 60
              /\ Cardinality(m) = 4
              /\ {metric_data[j].timestamp : j \in m} = {0, 30, 70, 130}
              /\ \A j \in m : metric_data[j].value = 1) =>
                /\ [i \in DOMAIN ret |-> ret[i].timestamp]
                     = << <<0, 0>>, <<1, 0>>, <<2, 0>> >>
                /\ [i \in DOMAIN ret |-> sample_count(ret[i])] = <<2, 1, 1>>
                /\ [i \in DOMAIN ret |-> sum(ret[i])] = <<2, 1, 1>>

\* the points at 0, 30, 70 and 130 were asked for with period 60 over
\* [0, 200]
C12_Witness ==
    /\ PositivePeriodCall
    /\ last.args[3] = 0 /\ last.args[4] = 200 /\ last.args[5] = 60
    /\ Cardinality(Matching(last)) = 4
    /\ {metric_data[j].timestamp : j \in Matching(last)} = {0, 30, 70, 130}
    /\ Len(last.ret) = 3

---------------------------------------------------------------------------
(* Invariant of the alarm registry *)

AlarmStates == {"OK", "ALARM", "INSUFFICIENT_DATA"}

\* C19: in every state reached by put_metric_alarm, set_alarm_state
\* (successful or failing) and delete_alarms, every alarm's state_value is one
\* of OK, ALARM, INSUFFICIENT_DATA, so is every state_value recorded in its
\* history, and the length of its history is the number of successful
\* set_alarm_state calls on its name since its most recent put.
C19_AlarmStateWellFormed ==
    \A n \in DOMAIN alarms :
       /\ alarms[n].state_value \in AlarmStates
       /\ \A i \in DOMAIN alarms[n].history :
             alarms[n].history[i][4] \in AlarmStates
       /\ Len(alarms[n].history) = set_state_calls[n]

\* a set_alarm_state call was refused for its state value on an alarm that
\* has two state updates in its history
C19_Witness ==
    /\ last.op = "set_alarm_state"
    /\ last.error = "InvalidParameterValue"
    /\ last.args[1] \in DOMAIN alarms
    /\ Len(alarms[last.args[1]].history) = 2
    /\ alarms[last.args[1]].state_value # "OK"

---------------------------------------------------------------------------
(* The remainder under a token *)

\* the step is a successful list_metrics call presenting the token t
Presents(t) ==
    last'.op = "list_metrics" /\ last'.error = None /\ last'.args[1] = t

\* C20: the remainder stored under a token is a snapshot taken when the
\* token was issued: no step but the call presenting the token, be it a
\* put_metric_data or another list_metrics call, changes it; the call
\* presenting the token returns the head of that remainder and stores its
\* tail under the next token, so the items are those of the first call's
\* result set and points added after the first call are in no later page.
C20_RemainderIsSnapshot ==
    [][\A t \in DOMAIN paged_metric_data :
          IF Presents(t)
          THEN /\ last'.ret.page = SliceTo(paged_metric_data[t], 500)
               /\ \A i \in DOMAIN last'.ret.page :
                     last'.ret.page[i] \in Range(chains[t].full)
               /\ IF last'.ret.token = NoToken
                  THEN Len(paged_metric_data[t]) <= 500
                  ELSE paged_metric_data'[last'.ret.token]
                          = SliceFrom(paged_metric_data[t], 500)
          ELSE /\ t \in DOMAIN paged_metric_data'
               /\ paged_metric_data'[t] = paged_metric_data[t]]_vars

\* a chain ended by a token left out a point of namespace N that was stored
\* after its first call
C20_Witness ==
    /\ last.op = "list_metrics"
    /\ last.error = None
    /\ last.args[1] # NoToken
    /\ last.ret.token = NoToken
    /\ last.ret.chain.got = last.ret.chain.full
    /\ \E i \in DOMAIN metric_data :
          /\ metric_data[i].namespace = "N"
          /\ metric_data[i] \notin Range(last.ret.chain.full)

---------------------------------------------------------------------------
(* The filter of list_metrics *)

\* a criterion that was not supplied or is empty
Absent(criterion) == criterion \in {None, ""}

\* the point md meets every supplied criterion
Keep(md, namespace, name, dimensions) ==
    /\ Absent(namespace) \/ md.namespace = namespace
    /\ Absent(name) \/ md.name = name
    /\ \A i \in DOMAIN dimensions :
          \E k \in DOMAIN md.dimensions :
             /\ md.dimensions[k].name = dimensions[i].Name
             /\ md.dimensions[k].value = dimensions[i].Value

\* C18: a list_metrics call without a token keeps a stored point iff every
\* supplied criterion matches: its namespace, its name, and every requested
\* dimension found by exact name and value among the point's dimensions; a
\* criterion that is absent or empty imposes no constraint.
C18_FilterKeepsMatchingPoints ==
    (last.op = "list_metrics" /\ last.args[1] = NoToken) =>
       /\ last.error = None
       /\ last.ret.page =
             SelectSeq(metric_data,
                       LAMBDA md : Keep(md, last.args[2], last.args[3],
                                        last.args[4]))

\* a listing by namespace and two dimensions kept one of two points that
\* share a dimension
C18_Witness ==
    /\ last.op = "list_metrics"
    /\ last.args[2] = "N"
    /\ Len(last.args[4]) = 2
    /\ Len(last.ret.page) = 1
    /\ Len(metric_data) = 2
    /\ \A i \in DOMAIN metric_data :
          /\ metric_data[i].namespace = "N"
          /\ Dimension("d", "1") \in Range(metric_data[i].dimensions)

---------------------------------------------------------------------------
(* Properties of the VPN gateways *)

\* the number of attachments of the gateway record g in state attached
AttachedCount(g) ==
    Cardinality({k \in DOMAIN g.attachments :
                    g.attachments[k].state = "attached"})

\* the step is a call of op that returned
Returned(op) == last'.op = op /\ last'.error = None

\* every gateway but g is left as it was
OthersUnchanged(g) ==
    /\ DOMAIN vpn_gateways' = DOMAIN vpn_gateways
    /\ \A h \in DOMAIN vpn_gateways \ {g} : vpn_gateways'[h] = vpn_gateways[h]

\* C13: every gateway has at most one attachment in state attached, and an
\* attach_vpn_gateway(g, v2) that returns on a gateway attached to v1 removes
\* the entry of v1 and every other entry whose key begins with vpc-, leaving
\* exactly one entry, keyed v2 and in state attached.
C13_AtMostOneAttached ==
    [][/\ \A g \in DOMAIN vpn_gateways' : AttachedCount(vpn_gateways'[g]) <= 1
       /\ Returned("attach_vpn_gateway") =>
             LET g == last'.args[1]
                 v2 == last'.args[2]
             IN /\ \A k \in DOMAIN vpn_gateways[g].attachments :
                      (k[1] = "vpc-" /\ k # v2) =>
                         k \notin DOMAIN vpn_gateways'[g].attachments
                /\ DOMAIN vpn_gateways'[g].attachments = {v2}
                /\ vpn_gateways'[g].attachments[v2].state = "attached"
                /\ last'.ret = vpn_gateways'[g].attachments[v2]]_vars

\* a gateway attached to one VPC was attached to another
C13_Witness ==
    /\ last.op = "attach_vpn_gateway"
    /\ last.error = None
    /\ \E v1 \in keys_before : v1 # last.args[2]
    /\ DOMAIN vpn_gateways[last.args[1]].attachments = {last.args[2]}

\* C14: a detach_vpn_gateway(g, v) that returns sets the state of the entry
\* of v to detached in place: the entry stays, no entry is added or removed,
\* and the gateway's own state and every other gateway are unchanged.
C14_DetachInPlace ==
    [][Returned("detach_vpn_gateway") =>
          LET g == last'.args[1]
              v == last'.args[2]
              before == vpn_gateways[g]
              after == vpn_gateways'[g]
          IN /\ v \in DOMAIN before.attachments
             /\ DOMAIN after.attachments = DOMAIN before.attachments
             /\ after.attachments[v] =
                   [before.attachments[v] EXCEPT !.state = "detached"]
             /\ \A k \in DOMAIN before.attachments \ {v} :
                   after.attachments[k] = before.attachments[k]
             /\ after.state = before.state
             /\ [after EXCEPT !.attachments = before.attachments] = before
             /\ OthersUnchanged(g)
             /\ last'.ret = after.attachments[v]]_vars

\* an attached entry was detached while another gateway stayed attached
C14_Witness ==
    /\ last.op = "detach_vpn_gateway"
    /\ last.error = None
    /\ vpn_gateways[last.args[1]].attachments[last.args[2]].state = "detached"
    /\ \E h \in DOMAIN vpn_gateways \ {last.args[1]} :
          AttachedCount(vpn_gateways[h]) = 1

\* C15: attach_vpn_gateway fails with the not-found error of the gateway
\* when the gateway is unknown and with that of the VPC when the VPC lookup
\* does not find the VPC; in both failures no gateway's attachments change.
C15_AttachRefused ==
    [][(/\ last'.op = "attach_vpn_gateway"
        /\ \/ last'.args[1] \notin DOMAIN vpn_gateways
           \/ last'.args[2] \notin KnownVpcs) =>
          /\ last'.error = IF last'.args[1] \notin DOMAIN vpn_gateways
                           THEN "InvalidVpnGatewayIdError"
                           ELSE "InvalidVPCIdError"
          /\ DOMAIN vpn_gateways' = DOMAIN vpn_gateways
          /\ \A g \in DOMAIN vpn_gateways :
                vpn_gateways'[g].attachments = vpn_gateways[g].attachments]_vars

\* an attached gateway was refused an unknown VPC
C15_Witness ==
    /\ last.op = "attach_vpn_gateway"
    /\ last.error = "InvalidVPCIdError"
    /\ last.args[1] \in DOMAIN vpn_gateways
    /\ AttachedCount(vpn_gateways[last.args[1]]) = 1

\* C16: detach_vpn_gateway fails with the not-found error of the gateway
\* when the gateway is unknown and with the invalid-attachment error when
\* the gateway has no entry for the VPC; the registry and every attachment
\* are unchanged.
C16_DetachRefused ==
    [][(/\ last'.op = "detach_vpn_gateway"
        /\ \/ last'.args[1] \notin DOMAIN vpn_gateways
           \/ last'.args[2] \notin
                 DOMAIN vpn_gateways[last'.args[1]].attachments) =>
          /\ last'.error = IF last'.args[1] \notin DOMAIN vpn_gateways
                           THEN "InvalidVpnGatewayIdError"
                           ELSE "InvalidVpnGatewayAttachmentError"
          /\ vpn_gateways' = vpn_gateways]_vars

\* a gateway attached to one VPC was refused the detachment of another
C16_Witness ==
    /\ last.op = "detach_vpn_gateway"
    /\ last.error = "InvalidVpnGatewayAttachmentError"
    /\ AttachedCount(vpn_gateways[last.args[1]]) = 1

\* C17: delete_vpn_gateway(g) fails with the not-found error and changes
\* nothing when g is absent; otherwise it sets the state of g to deleted in
\* place, the record staying in the registry with its attachments untouched.
\* Under create, attach, detach and delete the set of gateway ids never
\* shrinks and a deleted gateway never returns to available.
C17_DeleteMarksInPlace ==
    [][/\ \A g \in DOMAIN vpn_gateways :
             /\ g \in DOMAIN vpn_gateways'
             /\ vpn_gateways[g].state = "deleted" =>
                   vpn_gateways'[g].state = "deleted"
       /\ last'.op = "delete_vpn_gateway" =>
             LET g == last'.args[1]
             IN IF g \notin DOMAIN vpn_gateways
                THEN /\ last'.error = "InvalidVpnGatewayIdError"
                     /\ vpn_gateways' = vpn_gateways
                ELSE /\ last'.error = None
                     /\ vpn_gateways'[g].state = "deleted"
                     /\ vpn_gateways'[g].attachments
                           = vpn_gateways[g].attachments
                     /\ [vpn_gateways'[g] EXCEPT !.state = vpn_gateways[g].state]
                           = vpn_gateways[g]
                     /\ OthersUnchanged(g)
                     /\ last'.ret = vpn_gateways'[g]]_vars

\* a deleted gateway that kept its attachment was attached to another VPC
\* and is still deleted
C17_Witness ==
    /\ last.op = "attach_vpn_gateway"
    /\ last.error = None
    /\ keys_before # {}
    /\ vpn_gateways[last.args[1]].state = "deleted"

---------------------------------------------------------------------------
(* The stored remainders *)

\* the number of tokens stored in the token map paged
StoredTokens(paged) == Cardinality(DOMAIN paged)

\* C21: every remainder stored in paged_metric_data is non-empty, so a
\* list_metrics call presenting a valid token returns at least one item; a
\* call presenting a valid token never increases the number of stored tokens
\* (it removes one and adds at most one), and a call without a token adds at
\* most one.
C21_RemaindersNonEmpty ==
    [][/\ \A t \in DOMAIN paged_metric_data' :
             Len(paged_metric_data'[t]) >= 1
       /\ last'.op = "list_metrics" =>
             LET t == last'.args[1]
                 added == DOMAIN paged_metric_data' \ DOMAIN paged_metric_data
             IN IF t # NoToken /\ t \in DOMAIN paged_metric_data
                THEN /\ last'.error = None
                     /\ Len(last'.ret.page) >= 1
                     /\ t \notin DOMAIN paged_metric_data'
                     /\ DOMAIN paged_metric_data \ {t}
                           \subseteq DOMAIN paged_metric_data'
                     /\ Cardinality(added) <= 1
                     /\ StoredTokens(paged_metric_data')
                           <= StoredTokens(paged_metric_data)
                ELSE IF t = NoToken
                THEN /\ DOMAIN paged_metric_data
                           \subseteq DOMAIN paged_metric_data'
                     /\ Cardinality(added) <= 1
                     /\ StoredTokens(paged_metric_data')
                           <= StoredTokens(paged_metric_data) + 1
                ELSE TRUE]_vars

\* a call presenting a valid token returned a full page and stored the 200
\* items left under the token it issued
C21_Witness ==
    /\ last.op = "list_metrics"
    /\ last.error = None
    /\ last.args[1] # NoToken
    /\ last.ret.token # NoToken
    /\ last.ret.token \in DOMAIN paged_metric_data
    /\ Len(paged_metric_data[last.ret.token]) = 200
    /\ last.args[1] \notin DOMAIN paged_metric_data

====
